---- MODULE Spec2Model ----
(***************************************************************************)
(* A model of cxx_function.hpp: the polymorphic function wrapper           *)
(* wrapper_base< sig ... > with its four erasures (null_erasure,           *)
(* local_erasure, ptm_erasure, allocator_erasure), the dispatch table that *)
(* every erasure refers to, and an allocator with a small heap.            *)
(*                                                                         *)
(* A wrapper is a slot holding one erasure record.  Each handler of the    *)
(* header is an operator on a machine state S (slots, heap, allocator      *)
(* counters, pending exception) and each action of the specification       *)
(* applies one whole public operation.                                     *)
(*                                                                         *)
(* Assignment and swap are modelled for distinct wrappers only: an         *)
(* assignment of a wrapper to itself reads the erasure it has just         *)
(* destroyed.                                                              *)
(***************************************************************************)
EXTENDS Integers, FiniteSets, Sequences, TLC

\* Bounds of the model.
NumConts == 2
MaxAddr == 2
MaxVal == 1

\* The slot of the temporary that std::swap creates, and the null handle.
tmp == 0
nullhandle == 0

Cont == 1..NumConts
Slots == Cont \cup {tmp}
Addr == 1..MaxAddr
Vals == 1..MaxVal

\* Payload types: a function pointer, a pointer to member, a small functor
\* with a non-throwing move constructor, a functor larger than the storage,
\* and a functor that fits but whose move constructor may throw.
PtrTypes == {"fnptr"}
PtmTypes == {"ptm"}
FunctorTypes == {"small", "big", "tmove"}
PayloadTypes == PtrTypes \cup PtmTypes \cup FunctorTypes

\* The allocators: std::allocator (the default) and one supplied by a caller.
DefaultAllocator == "std"
Allocators == {"std", "A"}

\* What a test can make fail inside one operation: nothing, the allocation
\* (std::bad_alloc) or the payload's constructor.
Fails == {"none", "alloc", "ctor"}

VARIABLES conts, heap, allocs, deallocs, alive, last

vars == <<conts, heap, allocs, deallocs, alive, last>>

----------------------------------------------------------------------------
\* Erasure records.  table is the dispatch table the erasure_base refers to:
\* the erasure template it was instantiated for and the TARGET_TYPE entry.

Raw == [exists |-> FALSE, constructed |-> FALSE,
        table |-> [variant |-> "none", ty |-> "none"],
        pty |-> "none", val |-> 0, target |-> nullhandle, al |-> "none"]

\* A null erasure whose table names a type of its own instead of void.
null_erasure_typed == [exists |-> TRUE, constructed |-> TRUE,
                       table |-> [variant |-> "null", ty |-> "nullptr_t"],
                       pty |-> "nullptr_t", val |-> 0, target |-> nullhandle, al |-> "none"]

null_erasure == [exists |-> TRUE, constructed |-> TRUE,
                 table |-> [variant |-> "null", ty |-> "void"],
                 pty |-> "void", val |-> 0, target |-> nullhandle, al |-> "none"]

local_erasure(ty, v) == [exists |-> TRUE, constructed |-> TRUE,
                         table |-> [variant |-> "local", ty |-> ty],
                         pty |-> ty, val |-> v, target |-> nullhandle, al |-> "none"]

ptm_erasure(ty, v) == [exists |-> TRUE, constructed |-> TRUE,
                       table |-> [variant |-> "ptm", ty |-> ty],
                       pty |-> ty, val |-> v, target |-> nullhandle, al |-> "none"]

allocator_erasure(al, ty, p) == [exists |-> TRUE, constructed |-> TRUE,
                                 table |-> [variant |-> "allocator", ty |-> ty],
                                 pty |-> ty, val |-> 0, target |-> p, al |-> al]

FreeCell == [st |-> "free", ty |-> "none", val |-> 0]

\* The machine state the handlers work on.
St == [c |-> conts, h |-> heap, na |-> allocs, nd |-> deallocs,
       ub |-> {}, exc |-> "none", term |-> FALSE, ret |-> nullhandle]

Min(s) == CHOOSE x \in s : \A y \in s : x <= y

----------------------------------------------------------------------------
\* The allocator, through std::allocator_traits.

allocate(S, al, fail) ==
    LET free == {p \in Addr : S.h[p].st = "free"}
    IN  IF fail = "alloc" \/ free = {}
        THEN [S EXCEPT !.exc = "bad_alloc"]
        ELSE LET p == Min(free)
             IN  [S EXCEPT !.h[p] = [st |-> "raw", ty |-> "none", val |-> 0],
                           !.na = @ + 1,
                           !.ret = p]

construct(S, p, ty, v, fail) ==
    IF fail = "ctor"
    THEN [S EXCEPT !.exc = "ctor"]
    ELSE [S EXCEPT !.h[p] = [st |-> "live", ty |-> ty, val |-> v]]

\* allocator_traits::destroy on target_address(): the payload's destructor
\* runs on whatever the handle refers to.
allocator_destroy(S, p) ==
    IF p = nullhandle
    THEN [S EXCEPT !.ub = @ \cup {"null_destroy"}]
    ELSE IF S.h[p].st = "live"
         THEN [S EXCEPT !.h[p] = [st |-> "dead", ty |-> "none", val |-> 0]]
         ELSE [S EXCEPT !.ub = @ \cup {"dead_destroy"}]

----------------------------------------------------------------------------
\* Constructors and destructor of the erasures.

local_erasure_ctor(S, c, ty, v, fail) ==
    IF fail = "ctor"
    THEN [S EXCEPT !.exc = "ctor"]
    ELSE [S EXCEPT !.c[c] = local_erasure(ty, v)]

allocator_erasure_ctor(S, c, al, ty, v, fail) ==
    LET S1 == allocate(S, al, fail)
    IN  IF S1.exc # "none" THEN S1
        ELSE LET S2 == construct(S1, S1.ret, ty, v, fail)
             IN  IF S2.exc # "none" THEN S2
                 ELSE [S2 EXCEPT !.c[c] = allocator_erasure(al, ty, S1.ret)]

allocator_erasure_dtor(S, c) ==
    LET S1 == allocator_destroy(S, S.c[c].target)
    IN  [S1 EXCEPT !.c[c].constructed = FALSE]

\* A move constructor that forgets to null the handle of its source.
allocator_erasure_move_keep(S, o, c) ==
    LET e == S.c[o]
    IN  [S EXCEPT !.c[c] = allocator_erasure(e.al, e.pty, e.target)]

allocator_erasure_move(S, o, c) ==
    LET e == S.c[o]
    IN  [S EXCEPT !.c[c] = allocator_erasure(e.al, e.pty, e.target),
                  !.c[o].target = nullhandle]

\* * o.target is read to copy-construct the new pointee.
allocator_erasure_copy(S, o, c, fail) ==
    LET e == S.c[o]
        okSrc == e.target # nullhandle /\ S.h[e.target].st = "live"
        v == IF e.target # nullhandle THEN S.h[e.target].val ELSE 0
        S0 == IF okSrc THEN S ELSE [S EXCEPT !.ub = @ \cup {"dangling_read"}]
        S1 == allocate(S0, e.al, fail)
    IN  IF S1.exc # "none" THEN S1
        ELSE LET S2 == construct(S1, S1.ret, e.pty, v, fail)
             IN  IF S2.exc # "none" THEN S2
                 ELSE [S2 EXCEPT !.c[c] = allocator_erasure(e.al, e.pty, S1.ret)]

----------------------------------------------------------------------------
\* The dispatch table: each slot is looked up in the table the stored
\* erasure refers to and calls erasure_special< derived >.

table_destructor(S, c) ==
    IF S.c[c].table.variant = "allocator"
    THEN allocator_erasure_dtor(S, c)
    ELSE [S EXCEPT !.c[c].constructed = FALSE]

table_move_constructor(S, o, c) ==
    LET e == S.c[o]
    IN  CASE e.table.variant = "allocator" -> allocator_erasure_move(S, o, c)
          [] e.table.variant = "local" -> [S EXCEPT !.c[c] = local_erasure(e.table.ty, e.val)]
          [] e.table.variant = "ptm" -> [S EXCEPT !.c[c] = ptm_erasure(e.table.ty, e.val)]
          [] OTHER -> [S EXCEPT !.c[c] = null_erasure]

\* Copying a local_erasure copy-constructs the payload, which may throw
\* for a functor; pointers never throw.
table_copy_constructor(S, o, c, fail) ==
    LET e == S.c[o]
    IN  CASE e.table.variant = "allocator" -> allocator_erasure_copy(S, o, c, fail)
          [] e.table.variant = "local" ->
                local_erasure_ctor(S, c, e.table.ty, e.val,
                                   IF e.table.ty \in FunctorTypes THEN fail ELSE "none")
          [] e.table.variant = "ptm" -> [S EXCEPT !.c[c] = ptm_erasure(e.table.ty, e.val)]
          [] OTHER -> [S EXCEPT !.c[c] = null_erasure]

----------------------------------------------------------------------------
\* wrapper_base: the private functions that enter or recover from invalid
\* states.

destroy(S, c) == table_destructor(S, c)

init_nullptr(S, c) == [S EXCEPT !.c[c] = null_erasure]

\* operator = instantiated for std::nullptr_t, as init( wrapper_base && )
\* uses it on its argument: init( nullptr ) cannot throw.
operator_assign_nullptr(S, c) == init_nullptr(destroy(S, c), c)

init_move(S, c, o) == operator_assign_nullptr(table_move_constructor(S, o, c), o)

init_copy(S, c, o, fail) == table_copy_constructor(S, o, c, fail)

\* is_small< source >.  For a reference type (source deduced from an
\* lvalue) local_erasure< source & > holds a reference, which fits, and a
\* reference is nothrow move constructible.  None of the payload types
\* modelled here is over-aligned.
SizeFits(ty) == ty # "big"
NothrowMove(ty) == ty # "tmove"
is_small(ty, ref) == ref \/ (SizeFits(ty) /\ NothrowMove(ty))

\* What is passed after the piecewise-construct tag: a value of the payload
\* type (an lvalue or an rvalue), nothing, or the literal nullptr.
ArgVal(arg) == IF arg.form = "value" THEN arg.v ELSE 0

\* The payload constructor that a local erasure runs: a move from an rvalue
\* cannot throw (is_small), a copy or a default construction of a functor can.
LocalFail(ty, arg, fail) ==
    IF ty \in FunctorTypes /\ (arg.form # "value" \/ arg.lvalue) THEN fail ELSE "none"

init_pointer(S, c, ty, p) ==
    IF p # 0 THEN [S EXCEPT !.c[c] = local_erasure(ty, p)] ELSE init_nullptr(S, c)

init_ptm(S, c, ty, ptm) ==
    IF ptm # 0 THEN [S EXCEPT !.c[c] = ptm_erasure(ty, ptm)] ELSE init_nullptr(S, c)

init_local(S, c, ty, arg, fail) ==
    local_erasure_ctor(S, c, ty, ArgVal(arg), LocalFail(ty, arg, fail))

init_allocated(S, c, al, ty, arg, fail) ==
    allocator_erasure_ctor(S, c, al, ty, ArgVal(arg), fail)

init_allocated_default(S, c, ty, arg, fail) ==
    init_allocated(S, c, DefaultAllocator, ty, arg, fail)

\* Overload resolution of init( any_piecewise_construct_tag< source >, ... ):
\* the pointer and pointer-to-member overloads take exactly one argument of
\* that very type; anything else goes to the generic overloads.
init_tag(S, c, ty, arg, fail) ==
    CASE ty \in PtrTypes /\ arg.form = "value" -> init_pointer(S, c, ty, arg.v)
      [] ty \in PtmTypes /\ arg.form = "value" -> init_ptm(S, c, ty, arg.v)
      [] is_small(ty, FALSE) -> init_local(S, c, ty, arg, fail)
      [] OTHER -> init_allocated_default(S, c, ty, arg, fail)

\* A small source that is given to the supplied allocator all the same.
init_small_alloc_forced(S, c, al, ty, arg, fail) ==
    init_allocated(S, c, al, ty, arg, fail)

\* init( allocator_arg_t, allocator const &, tag, ... ) for a small source.
init_small_alloc(S, c, al, ty, arg, fail) == init_tag(S, c, ty, arg, fail)

init_tag_alloc(S, c, al, ty, arg, fail) ==
    IF is_small(ty, FALSE)
    THEN init_small_alloc(S, c, al, ty, arg, fail)
    ELSE init_allocated(S, c, al, ty, arg, fail)

\* A source of a construction or an assignment:
\*   kind "nullptr", "move" (wrapper_base &&), "copy" (wrapper_base &),
\*   or "value" (a callable, or in-place arguments after a tag).
init(S, c, src, fail) ==
    CASE src.kind = "nullptr" -> init_nullptr(S, c)
      [] src.kind = "move" -> init_move(S, c, src.o)
      [] src.kind = "copy" -> init_copy(S, c, src.o, fail)
      [] OTHER -> IF src.al = "none"
                  THEN init_tag(S, c, src.ty, src.arg, fail)
                  ELSE init_tag_alloc(S, c, src.al, src.ty, src.arg, fail)

is_compatibly_wrapped(src) == src.kind \in {"move", "copy"}

\* noexcept( is_compatibly_wrapped< source >::value || is_small< source >::value )
noexcept_assign(src) ==
    \/ is_compatibly_wrapped(src)
    \/ src.kind = "nullptr"
    \/ src.kind = "value" /\ is_small(src.ty, src.arg.lvalue)

----------------------------------------------------------------------------
\* wrapper_base: the public operations.

constructor(S, c, src, fail) ==
    LET S1 == init(S, c, src, fail)
    IN  IF S1.exc # "none" THEN [S1 EXCEPT !.c[c] = Raw] ELSE S1

destructor(S, c) == [destroy(S, c) EXCEPT !.c[c] = Raw]

\* The function-try-block of operator =: an exception that leaves the
\* handler of a noexcept function ends in std::terminate.
operator_assign(S, c, src, fail) ==
    LET S1 == destroy(S, c)
        S2 == init(S1, c, src, fail)
    IN  IF S2.exc = "none" THEN S2
        ELSE [init_nullptr(S2, c) EXCEPT !.term = noexcept_assign(src)]

\* wrapper_base declares neither a copy constructor nor a copy assignment
\* operator: the constructor and operator = templates are never those, so
\* for a const source the implicitly defined ones are chosen, which copy
\* the storage as it is.
implicit_copy(S, c, o) == [S EXCEPT !.c[c] = S.c[o]]

MoveFrom(o) == [kind |-> "move", o |-> o, ty |-> "none",
                arg |-> [form |-> "none", v |-> 0, lvalue |-> FALSE], al |-> "none"]

\* A swap that never moves the temporary back.
swap_lossy(S, x, y) ==
    LET S1 == constructor(S, tmp, MoveFrom(x), "none")
        S2 == operator_assign(S1, x, MoveFrom(y), "none")
    IN  destructor(S2, tmp)

\* std::swap( * this, other ): T t( move( a ) ); a = move( b ); b = move( t );
swap(S, x, y) ==
    LET S1 == constructor(S, tmp, MoveFrom(x), "none")
        S2 == operator_assign(S1, x, MoveFrom(y), "none")
        S3 == operator_assign(S2, y, MoveFrom(tmp), "none")
    IN  destructor(S3, tmp)

target_type(e) == e.table.ty

operator_bool(e) == target_type(e) # "void"

\* The call operator: the dispatcher found in the table of the stored
\* erasure.  null_dispatch throws std::bad_function_call; the others call
\* the payload, which answers with a value of its own.
invoke(S, c) ==
    LET e == S.c[c]
    IN  CASE e.table.variant = "null" ->
                [kind |-> "bad_function_call", ty |-> "void", val |-> 0]
          [] e.table.variant = "allocator" ->
                IF e.target # nullhandle /\ S.h[e.target].st = "live"
                THEN [kind |-> "returned", ty |-> S.h[e.target].ty, val |-> S.h[e.target].val]
                ELSE [kind |-> "undefined", ty |-> e.pty, val |-> 0]
          [] OTHER ->
                IF e.pty \in PtrTypes \cup PtmTypes /\ e.val = 0
                THEN [kind |-> "undefined", ty |-> e.pty, val |-> 0]
                ELSE [kind |-> "returned", ty |-> e.pty, val |-> e.val]

\* target< want >(): the payload's address if want is the stored type.
target(S, c, want) ==
    LET e == S.c[c]
    IN  IF want # target_type(e) THEN [found |-> FALSE, val |-> 0]
        ELSE IF e.table.variant = "allocator"
             THEN [found |-> TRUE,
                   val |-> IF e.target # nullhandle THEN S.h[e.target].val ELSE 0]
             ELSE [found |-> e.table.variant # "null", val |-> e.val]

----------------------------------------------------------------------------
\* The specification: one action per public operation of a wrapper.

NoArg == [form |-> "none", v |-> 0, lvalue |-> FALSE]

NullSrc == [kind |-> "nullptr", o |-> tmp, ty |-> "none", arg |-> NoArg, al |-> "none"]
CopyFrom(o) == [kind |-> "copy", o |-> o, ty |-> "none", arg |-> NoArg, al |-> "none"]
ConstCopyFrom(o) == [kind |-> "constcopy", o |-> o, ty |-> "none", arg |-> NoArg, al |-> "none"]
ValueSrc(ty, v, lvalue, al) ==
    [kind |-> "value", o |-> tmp, ty |-> ty,
     arg |-> [form |-> "value", v |-> v, lvalue |-> lvalue], al |-> al]
InPlaceSrc(ty, form, al) ==
    [kind |-> "value", o |-> tmp, ty |-> ty,
     arg |-> [form |-> form, v |-> 0, lvalue |-> FALSE], al |-> al]

\* The values a callable of a type can have: a pointer may be null.
ValuesOf(ty) == IF ty \in PtrTypes \cup PtmTypes THEN Vals \cup {0} ELSE Vals

\* In-place argument lists other than one value of the payload type, for a
\* function pointer: none at all, or the literal nullptr.  (A pointer to
\* member constructed this way does not compile: local_erasure calls its
\* target with call syntax.)
InPlaceForms(ty) == IF ty \in PtrTypes THEN {"noarg", "nullptr"} ELSE {}

\* The failures that can happen while a value of a type is adopted: a
\* pointer never throws; a functor's constructor may, and so may the
\* allocation of one that is not stored inline.
FailsOf(ty) ==
    IF ty \in FunctorTypes
    THEN IF is_small(ty, FALSE) THEN {"none", "ctor"} ELSE Fails
    ELSE {"none"}

\* The failures that can happen while an erasure is copied.
CopyFails(e) ==
    CASE e.table.variant = "allocator" -> Fails
      [] e.table.variant = "local" /\ e.table.ty \in FunctorTypes -> {"none", "ctor"}
      [] OTHER -> {"none"}

SuppliedAllocators == Allocators \ {DefaultAllocator}

\* Undefined behaviour met on the way either goes unnoticed or ends the
\* program.
Outcomes(S) == IF S.ub = {} THEN {"run"} ELSE {"run", "crash"}

Commit(S, op, dst, src, oc) ==
    IF oc = "crash"
    THEN /\ alive' = FALSE
         /\ UNCHANGED <<conts, heap, allocs, deallocs>>
         /\ last' = [op |-> op, dst |-> dst, src |-> src, res |-> "crashed",
                     exc |-> "none", ub |-> S.ub]
    ELSE /\ conts' = S.c
         /\ heap' = S.h
         /\ allocs' = S.na
         /\ deallocs' = S.nd
         /\ alive' = ~S.term
         /\ last' = [op |-> op, dst |-> dst, src |-> src,
                     res |-> IF S.term THEN "terminated"
                             ELSE IF S.exc = "none" THEN "ok" ELSE "threw",
                     exc |-> S.exc, ub |-> S.ub]

Init ==
    /\ conts = [c \in Slots |-> Raw]
    /\ heap = [p \in Addr |-> FreeCell]
    /\ allocs = 0
    /\ deallocs = 0
    /\ alive = TRUE
    /\ last = [op |-> "none", dst |-> tmp, src |-> NullSrc, res |-> "ok",
               exc |-> "none", ub |-> {}]

Construct(c, src, fail) ==
    /\ alive /\ ~conts[c].exists
    /\ LET S == constructor(St, c, src, fail)
       IN  \E oc \in Outcomes(S) : Commit(S, "construct", c, src, oc)

ConstructNull ==
    \E c \in Cont : Construct(c, NullSrc, "none")

ConstructValue ==
    \E c \in Cont, ty \in PayloadTypes, lvalue \in BOOLEAN :
        \E v \in ValuesOf(ty), fail \in FailsOf(ty) :
            Construct(c, ValueSrc(ty, v, lvalue, "none"), fail)

ConstructAllocTagged ==
    \E c \in Cont, al \in SuppliedAllocators, ty \in PayloadTypes, lvalue \in BOOLEAN :
        \E v \in ValuesOf(ty), fail \in FailsOf(ty) :
            Construct(c, ValueSrc(ty, v, lvalue, al), fail)

ConstructInPlace ==
    \E c \in Cont, al \in SuppliedAllocators \cup {"none"}, ty \in PayloadTypes :
        \E form \in InPlaceForms(ty) : Construct(c, InPlaceSrc(ty, form, al), "none")

CopyConstruct ==
    \E c \in Cont, o \in Cont :
        /\ o # c /\ conts[o].exists
        /\ \E fail \in CopyFails(conts[o]) : Construct(c, CopyFrom(o), fail)

MoveConstruct ==
    \E c \in Cont, o \in Cont :
        /\ o # c /\ conts[o].exists
        /\ Construct(c, MoveFrom(o), "none")

CopyConstructConst ==
    \E c \in Cont, o \in Cont :
        /\ alive /\ o # c /\ conts[o].exists /\ ~conts[c].exists
        /\ Commit(implicit_copy(St, c, o), "construct", c, ConstCopyFrom(o), "run")

Destruct ==
    \E c \in Cont :
        /\ alive /\ conts[c].exists
        /\ LET S == destructor(St, c)
           IN  \E oc \in Outcomes(S) : Commit(S, "destruct", c, NullSrc, oc)

Assign(c, src, fail) ==
    /\ alive /\ conts[c].exists
    /\ LET S == operator_assign(St, c, src, fail)
       IN  \E oc \in Outcomes(S) : Commit(S, "assign", c, src, oc)

AssignNull ==
    \E c \in Cont : Assign(c, NullSrc, "none")

AssignValue ==
    \E c \in Cont, ty \in PayloadTypes, lvalue \in BOOLEAN :
        \E v \in ValuesOf(ty), fail \in FailsOf(ty) :
            Assign(c, ValueSrc(ty, v, lvalue, "none"), fail)

AssignCopy ==
    \E c \in Cont, o \in Cont :
        /\ o # c /\ conts[o].exists
        /\ \E fail \in CopyFails(conts[o]) : Assign(c, CopyFrom(o), fail)

AssignMove ==
    \E c \in Cont, o \in Cont :
        /\ o # c /\ conts[o].exists
        /\ Assign(c, MoveFrom(o), "none")

AssignCopyConst ==
    \E c \in Cont, o \in Cont :
        /\ alive /\ o # c /\ conts[o].exists /\ conts[c].exists
        /\ Commit(implicit_copy(St, c, o), "assign", c, ConstCopyFrom(o), "run")

Swap ==
    \E x \in Cont, y \in Cont :
        /\ alive /\ x # y /\ conts[x].exists /\ conts[y].exists
        /\ LET S == swap(St, x, y)
           IN  \E oc \in Outcomes(S) : Commit(S, "swap", x, MoveFrom(y), oc)

Invoke ==
    \E c \in Cont :
        /\ alive /\ conts[c].exists
        /\ LET r == invoke(St, c)
               S == [St EXCEPT !.exc = IF r.kind = "bad_function_call"
                                       THEN "bad_function_call" ELSE "none",
                               !.ub = IF r.kind = "undefined" THEN {"call"} ELSE {}]
           IN  \E oc \in Outcomes(S) : Commit(S, "invoke", c, NullSrc, oc)

Next ==
    \/ ConstructNull
    \/ ConstructValue
    \/ ConstructAllocTagged
    \/ ConstructInPlace
    \/ CopyConstruct
    \/ MoveConstruct
    \/ CopyConstructConst
    \/ Destruct
    \/ AssignNull
    \/ AssignValue
    \/ AssignCopy
    \/ AssignMove
    \/ AssignCopyConst
    \/ Swap
    \/ Invoke

Spec == Init /\ [][Next]_vars

----------------------------------------------------------------------------
\* The properties.

\* The machine state after a step.
StNext == [c |-> conts', h |-> heap', na |-> allocs', nd |-> deallocs',
           ub |-> {}, exc |-> "none", term |-> FALSE, ret |-> nullhandle]

Live == {c \in Cont : conts[c].exists}

IsEmpty(S, c) ==
    /\ ~operator_bool(S.c[c])
    /\ invoke(S, c).kind = "bad_function_call"

\* C1: whenever the construction of the new erasure throws inside an
\* assignment, the wrapper is empty afterwards and the exception reaches the
\* caller of the assignment.
C1_AssignThrowDelivered ==
    (last.op = "assign" /\ last.exc # "none")
        => /\ last.res = "threw"
           /\ ~operator_bool(conts[last.dst])

\* C2: after every operation the storage of every wrapper holds one
\* constructed erasure (null, local, ptm or allocator) whose table is the
\* table of the payload it stores; for an allocator erasure the payload is
\* the live pointee behind its handle.
C2_ValidErasure ==
    \A c \in Live :
        LET e == conts[c]
        IN  /\ e.constructed
            /\ e.table.variant \in {"null", "local", "ptm", "allocator"}
            /\ e.table.ty = e.pty
            /\ (e.table.variant = "null") = (e.pty = "void")
            /\ e.table.variant = "ptm" => e.pty \in PtmTypes
            /\ e.table.variant = "allocator" =>
                  /\ e.target # nullhandle
                  /\ heap[e.target].st = "live"
                  /\ heap[e.target].ty = e.table.ty

\* C3: for every wrapper, bool( c ) is false exactly if target_type() is
\* typeid( void ), exactly if a call throws std::bad_function_call; a wrapper
\* constructed from nothing or from nullptr is such a wrapper.
C3_EmptyEquivalence ==
    /\ \A c \in Live :
          /\ (~operator_bool(conts[c])) = (target_type(conts[c]) = "void")
          /\ (target_type(conts[c]) = "void") = (invoke(St, c).kind = "bad_function_call")
    /\ (last.op = "construct" /\ last.src.kind = "nullptr" /\ last.res = "ok")
          => IsEmpty(St, last.dst)

C3_Witness ==
    /\ last.op = "invoke" /\ last.res = "threw" /\ last.exc = "bad_function_call"
    /\ ~operator_bool(conts[last.dst])
    /\ \E c \in Live : operator_bool(conts[c]) /\ invoke(St, c).kind = "returned"

\* C4: a move construction of b from a that returns leaves b with the target
\* type, the target value and the call result a had, and leaves a empty.
C4_MoveRoundTrip ==
    [][(last'.op = "construct" /\ last'.src.kind = "move" /\ last'.res = "ok")
        => LET b == last'.dst
               a == last'.src.o
           IN  /\ target_type(conts'[b]) = target_type(conts[a])
               /\ \A want \in PayloadTypes : target(StNext, b, want) = target(St, a, want)
               /\ invoke(StNext, b) = invoke(St, a)
               /\ IsEmpty(StNext, a)]_vars

C4_Witness ==
    /\ last.op = "construct" /\ last.src.kind = "move" /\ last.res = "ok"
    /\ conts[last.dst].table.variant = "allocator"
    /\ invoke(St, last.dst).kind = "returned"
    /\ IsEmpty(St, last.src.o)

\* C5: once every wrapper has been destroyed, as many elements have been
\* deallocated as were allocated (elements that a construction which threw
\* left without a payload set aside: their storage never held a pointee).
C5_AllocationBalance ==
    (/\ \A c \in Slots : ~conts[c].exists
     /\ \A p \in Addr : heap[p].st # "raw")
        => deallocs = allocs

\* C6: no allocated element is left without a payload: the storage of a
\* construction that threw has been given back to the allocator.
C6_NoLeakOnThrow ==
    \A p \in Addr : heap[p].st # "raw"

\* The allocator-tagged construction from a callable that is not a null
\* pointer.
AllocTaggedDone(l) ==
    /\ l.op = "construct" /\ l.src.kind = "value" /\ l.src.al # "none"
    /\ l.src.arg.form = "value" /\ l.src.arg.v # 0
    /\ l.res = "ok"

\* C7, as claimed: an allocator-tagged construction stores the payload in an
\* allocator erasure that uses the supplied allocator, also when the payload
\* is small.
C7_AllocTaggedForcesAllocator ==
    AllocTaggedDone(last)
        => /\ conts[last.dst].table.variant = "allocator"
           /\ conts[last.dst].al = last.src.al

\* C7, amended: an allocator-tagged construction of a small payload stores it
\* inline and allocates nothing; of any other payload it allocates one
\* element and stores an allocator erasure that holds the supplied allocator.
C7_AllocTaggedSmallInline ==
    [][AllocTaggedDone(last')
        => LET e == conts'[last'.dst]
           IN  IF is_small(last'.src.ty, FALSE)
               THEN /\ e.table.variant \in {"local", "ptm"}
                    /\ e.al = "none"
                    /\ e.val = last'.src.arg.v
                    /\ allocs' = allocs
               ELSE /\ e.table.variant = "allocator"
                    /\ e.al = last'.src.al
                    /\ allocs' = allocs + 1
                    /\ heap[e.target].st = "free"
                    /\ heap'[e.target].st = "live"]_vars

C7_Witness ==
    /\ AllocTaggedDone(last)
    /\ last.src.ty = "small"
    /\ conts[last.dst].table.variant = "local"
    /\ allocs = 0

\* C8: every allocated pointee is referred to by the handle of at most one
\* allocator erasure.
C8_ExclusiveOwnership ==
    \A p \in Addr :
        Cardinality({c \in Slots : /\ conts[c].exists
                                   /\ conts[c].table.variant = "allocator"
                                   /\ conts[c].target = p}) <= 1

\* C9: no wrapper stores a null function pointer or a null pointer to member.
C9_NoNullPointerPayload ==
    \A c \in Live :
        conts[c].pty \in PtrTypes \cup PtmTypes => conts[c].val # 0

\* C10: a swap of two distinct wrappers that returns exchanges their
\* erasures, leaves the heap as it was and allocates nothing, and a second
\* swap restores both.
C10_SwapExchanges ==
    [][(last'.op = "swap" /\ last'.res = "ok")
        => LET x == last'.dst
               y == last'.src.o
           IN  /\ conts'[x] = conts[y]
               /\ conts'[y] = conts[x]
               /\ conts'[tmp] = Raw
               /\ heap' = heap
               /\ allocs' = allocs /\ deallocs' = deallocs
               /\ swap(StNext, x, y).c = conts
               /\ swap(StNext, x, y).h = heap]_vars

C10_Witness ==
    /\ last.op = "swap" /\ last.res = "ok"
    /\ conts[last.dst].table.variant = "allocator"
    /\ conts[last.src.o].table.variant = "local"
    /\ invoke(St, last.dst).kind = "returned"

\* C11: in no operation is allocator_traits::destroy applied to a handle that
\* is null or that refers to a pointee already destroyed; in particular a
\* move from a wrapper that holds an allocator erasure, which resets the
\* moved-from wrapper, destroys nothing through the nulled handle.
C11_DestroyOnlyLive ==
    /\ "null_destroy" \notin last.ub
    /\ "dead_destroy" \notin last.ub

====
